---------------------------- MODULE Spec2Model ----------------------------
(***************************************************************************)
(* jpgextract: command-line validation (processCli, setup), the channel    *)
(* based scheduler (doProcess), the decode goroutines and the detached     *)
(* rotation goroutines (processFilesConcurrent).                           *)
(*                                                                         *)
(* Strings are sequences of one-character strings, so that TrimSpace,      *)
(* ToUpper, Split and HasSuffix are computed as the Go library computes    *)
(* them.                                                                   *)
(***************************************************************************)
EXTENDS Integers, Sequences, FiniteSets, TLC

(***************************************************************************)
(* Bounds of the model.                                                    *)
(***************************************************************************)
\* largest value of --num-routines tried (the smallest tried is -1)
MaxRoutines == 2
\* largest number of files one run discovers, summed over its passes
MaxFiles == 3
\* largest number of files in a run that has rotation enabled
MaxRotFiles == 2
\* longest path handed to validateUserDir in a direct call
MaxPathLen == 3

(***************************************************************************)
(* Program constants.                                                      *)
(***************************************************************************)
\* cli.IntFlag{QualityKey, 80, ...}
DefaultQuality == 80
\* cli.IntFlag{NumRoutinesKey, 2, ...}
DefaultNumRoutines == 2

\* ImageMagicConvertBin = "convert"
ImageMagicConvertBin == "convert"

NefParserKey == <<"N", "E", "F">>
Cr2ParserKey == <<"C", "R", "2">>
validParserKeys == <<NefParserKey, Cr2ParserKey>>

(***************************************************************************)
(* strings.* as used by processCli.                                        *)
(***************************************************************************)
LowerCase == <<"a","b","c","d","e","f","g","h","i","j","k","l","m",
               "n","o","p","q","r","s","t","u","v","w","x","y","z">>
UpperCase == <<"A","B","C","D","E","F","G","H","I","J","K","L","M",
               "N","O","P","Q","R","S","T","U","V","W","X","Y","Z">>

IsSpace(c) == c \in {" ", "\t", "\n"}

RECURSIVE TrimLeft(_)
TrimLeft(s) ==
    IF s = <<>> THEN s
    ELSE IF IsSpace(Head(s)) THEN TrimLeft(Tail(s)) ELSE s

RECURSIVE TrimRight(_)
TrimRight(s) ==
    IF s = <<>> THEN s
    ELSE IF IsSpace(s[Len(s)]) THEN TrimRight(SubSeq(s, 1, Len(s) - 1)) ELSE s

TrimSpace(s) == TrimRight(TrimLeft(s))

ToUpperChar(c) ==
    IF \E i \in 1..Len(LowerCase) : LowerCase[i] = c
    THEN UpperCase[CHOOSE i \in 1..Len(LowerCase) : LowerCase[i] = c]
    ELSE c

ToUpper(s) == [i \in 1..Len(s) |-> ToUpperChar(s[i])]

\* strings.Split(s, sep) for a one-character sep: the pieces between the
\* separators, empty pieces included; Split("", ",") is one empty piece.
RECURSIVE SplitFrom(_, _, _)
SplitFrom(s, sep, cur) ==
    IF s = <<>> THEN <<cur>>
    ELSE IF Head(s) = sep THEN <<cur>> \o SplitFrom(Tail(s), sep, <<>>)
    ELSE SplitFrom(Tail(s), sep, Append(cur, Head(s)))

Split(s, sep) == SplitFrom(s, sep, <<>>)

HasSuffix(s, suffix) ==
    /\ Len(s) >= Len(suffix)
    /\ SubSeq(s, Len(s) - Len(suffix) + 1, Len(s)) = suffix

(***************************************************************************)
(* The file system the run sees.  Names are one character long: a and b    *)
(* are directories that may hold RAW files, d is a directory (used as the  *)
(* destination), f is a regular file, "/" is the root directory and every  *)
(* other name does not exist.                                              *)
(***************************************************************************)
SrcObjs == {"a", "b"}

KindOfName(n) ==
    CASE n \in {"a", "b", "d"} -> "dir"
      [] n = "f"               -> "file"
      [] OTHER                 -> "absent"

RECURSIVE StripSlashes(_)
StripSlashes(p) ==
    IF p = <<>> THEN p
    ELSE IF p[Len(p)] = "/" THEN StripSlashes(SubSeq(p, 1, Len(p) - 1)) ELSE p

\* What os.Open(path) and then Stat give: "absent" when the open fails.
PathKind(path) ==
    LET p == StripSlashes(path) IN
    IF path = <<>> THEN "absent"
    ELSE IF p = <<>> THEN "dir"
    ELSE IF Len(p) # 1 THEN "absent"
    ELSE IF KindOfName(p[1]) = "file" /\ p # path THEN "absent"
    ELSE KindOfName(p[1])

\* as validateUserDir, but without the Stat of the opened path
validateUserDir_OpenOnly(dirStr) ==
    IF PathKind(dirStr) = "absent" THEN <<FALSE, "unable to open directory">>
    ELSE <<TRUE, "">>

\* validateUserDir: <<isValid, errStr>>
validateUserDir(dirStr) ==
    IF PathKind(dirStr) = "absent" THEN <<FALSE, "unable to open directory">>
    ELSE IF PathKind(dirStr) # "dir" THEN <<FALSE, "is not a directory">>
    ELSE <<TRUE, "">>

isRawFileExtValid_AcceptsAll(ext) == TRUE

isRawFileExtValid(ext) == \E i \in 1..Len(validParserKeys) : ext = validParserKeys[i]

(***************************************************************************)
(* State.                                                                  *)
(***************************************************************************)
VARIABLES
    osArgs,          \* the flag values cli hands to app.Action (never changes)
    env,             \* the host: the programs in PATH, whether the profile file opens
    fs,              \* fs[<<dir, ext>>]: number of *.ext files in directory dir
    procState,       \* "running", "exit0", "exit1" (os.Exit(1)), "panic"
    pc,              \* where the main goroutine stands
    rawFileExts, srcDirs, destDir, numOfRoutines, quality, rotate,
    dirIdx, extIdx,  \* the two range loops of doProcess (1-based)
    files,           \* files of the current pass
    j,               \* the loop variable j of the current pass (0-based)
    routinesActive,
    total,
    doneClosed,      \* close(done) has executed
    tasks,           \* one record per goroutine processFilesConcurrent started
    wgCount,         \* counter of the sync.WaitGroup done (WaitGroup-based doProcess)
    finishClosed,    \* close(finish) has executed (WaitGroup-based doProcess)
    probe            \* a direct call of a utility function: its argument, its result

inputVars  == <<osArgs, env, fs>>
configVars == <<rawFileExts, srcDirs, destDir, numOfRoutines, quality, rotate>>
schedVars  == <<pc, dirIdx, extIdx, files, j, routinesActive, total, doneClosed>>
wgVars     == <<wgCount, finishClosed>>
vars == <<osArgs, env, fs, procState, pc, rawFileExts, srcDirs, destDir,
          numOfRoutines, quality, rotate, dirIdx, extIdx, files, j,
          routinesActive, total, doneClosed, tasks, wgCount, finishClosed, probe>>

Running == procState = "running"

(***************************************************************************)
(* processCli: the body of app.Action, as one sequential computation.      *)
(***************************************************************************)
\* as isImagicConvertInPath, but the error of Start is not looked at
isImagicConvertInPath_IgnoresErr(bin, e) == TRUE

\* exec.Command(bin).Start() succeeds on the host e
isImagicConvertInPath(bin, e) == bin \in e.path

\* srcDirs[i] = TrimSpace(dir); if !HasSuffix(dir, "/") { srcDirs[i] += "/" }
NormSrcDir(dir) ==
    IF ~HasSuffix(dir, <<"/">>) THEN TrimSpace(dir) \o <<"/">> ELSE TrimSpace(dir)

NormRawExt(ext) == ToUpper(TrimSpace(ext))

\* destDir after the final HasSuffix fix-up
NormDestDir(dir) == IF ~HasSuffix(dir, <<"/">>) THEN dir \o <<"/">> ELSE dir

\* index of the first entry the range loop exits on, 0 when there is none
FirstInvalidExt(exts) ==
    IF \E i \in 1..Len(exts) : ~isRawFileExtValid(exts[i])
    THEN CHOOSE i \in 1..Len(exts) :
            /\ ~isRawFileExtValid(exts[i])
            /\ \A k \in 1..(i - 1) : isRawFileExtValid(exts[k])
    ELSE 0

FirstInvalidDir(dirs) ==
    IF \E i \in 1..Len(dirs) : ~validateUserDir(dirs[i])[1]
    THEN CHOOSE i \in 1..Len(dirs) :
            /\ ~validateUserDir(dirs[i])[1]
            /\ \A k \in 1..(i - 1) : validateUserDir(dirs[k])[1]
    ELSE 0

\* The values of the globals when app.Run returns or the process exits, and
\* which of the two happened: "processed", "notrun" (cli did not call the
\* action) or "exit" (os.Exit(1), log.Fatal or exitWithErr inside the action).
processCli(a, e) ==
    LET rawExts  == TrimSpace(a.raws)
        srcDir   == TrimSpace(a.srcs)
        dst      == TrimSpace(a.dest)
        zero     == [outcome |-> "notrun", rawFileExts |-> <<>>, srcDirs |-> <<>>,
                     destDir |-> <<>>, numOfRoutines |-> 0, quality |-> 0,
                     rotate |-> FALSE]
        read     == [zero EXCEPT !.outcome = "exit", !.destDir = dst,
                                 !.numOfRoutines = a.num, !.quality = a.quality,
                                 !.rotate = a.rotate]
        exts     == Split(rawExts, ",")
        badExt   == FirstInvalidExt([i \in 1..Len(exts) |-> NormRawExt(exts[i])])
        extsDone == [i \in 1..Len(exts) |->
                        IF badExt = 0 \/ i <= badExt THEN NormRawExt(exts[i])
                        ELSE exts[i]]
        dirs     == Split(srcDir, ",")
        badDir   == FirstInvalidDir([i \in 1..Len(dirs) |-> NormSrcDir(dirs[i])])
        dirsDone == [i \in 1..Len(dirs) |->
                        IF badDir = 0 \/ i <= badDir THEN NormSrcDir(dirs[i])
                        ELSE dirs[i]]
    IN  IF ~a.flagsOk THEN zero
        ELSE IF rawExts = <<>> \/ srcDir = <<>> \/ dst = <<>> THEN read
        ELSE IF a.rotate /\ ~isImagicConvertInPath(ImageMagicConvertBin, e) THEN read
        ELSE IF badExt # 0 THEN [read EXCEPT !.rawFileExts = extsDone]
        ELSE IF badDir # 0
             THEN [read EXCEPT !.rawFileExts = extsDone, !.srcDirs = dirsDone]
        ELSE IF ~validateUserDir(dst)[1]
             THEN [read EXCEPT !.rawFileExts = extsDone, !.srcDirs = dirsDone]
        ELSE [read EXCEPT !.outcome = "processed", !.rawFileExts = extsDone,
                          !.srcDirs = dirsDone, !.destDir = NormDestDir(dst)]

(***************************************************************************)
(* getFilesForExt(dir + "*." + rawType): the paths filepath.Glob returns,  *)
(* each a record of its directory, its number in the directory and its    *)
(* extension.                                                              *)
(***************************************************************************)
GlobPattern(dir, rawType) == dir \o <<"*", ".">> \o rawType

getFilesForExt(pattern, fsys) ==
    LET star == CHOOSE k \in 1..Len(pattern) :
                    /\ pattern[k] = "*"
                    /\ \A m \in 1..(k - 1) : pattern[m] # "*"
        dir  == StripSlashes(SubSeq(pattern, 1, star - 1))
        ext  == SubSeq(pattern, star + 2, Len(pattern))
    IN  IF Len(dir) = 1 /\ <<dir[1], ext>> \in DOMAIN fsys
        THEN [n \in 1..fsys[<<dir[1], ext>>] |-> [dir |-> dir[1], n |-> n, ext |-> ext]]
        ELSE <<>>

(***************************************************************************)
(* Inputs.  A run is started with flag values, a host and a file system.   *)
(***************************************************************************)
RawsInputs ==
    { <<>>,                                       \* --raws not given
      <<"x", "y", "z">>,                          \* unsupported
      <<" ", "n", "e", "f", " ">>,                \* " nef "
      <<"N", "E", "F", ",", " ", "c", "r", "2">>, \* "NEF, cr2"
      <<"N", "E", "F", ",", "N", "E", "F">>,      \* "NEF,NEF"
      <<"N", "E", "F", ",", "x">> }               \* second entry unsupported

SrcsInputs ==
    { <<>>,                                       \* --src-dirs not given
      <<"x">>,                                    \* does not exist
      <<"f">>,                                    \* a regular file
      <<"a">>,
      <<"a", "/", " ", ",", "b">>,                \* "a/ ,b"
      <<"a", ",", "a", "/">>,                     \* "a,a/": one directory twice
      <<"a", ",", "x">>,                          \* second entry does not exist
      <<"a", ",">> }                              \* second entry empty: becomes "/"

DestInputs ==
    { <<>>, <<"x">>, <<"f">>, <<"d">>, <<" ", "d", "/">> }

FileSystems == [SrcObjs \X {NefParserKey, Cr2ParserKey} -> 0..MaxFiles]

OneFile == [p \in SrcObjs \X {NefParserKey, Cr2ParserKey} |->
               IF p = <<"a", NefParserKey>> THEN 1 ELSE 0]

\* Number of files the run started with a and fsys discovers, over all passes.
RECURSIVE SumLens(_, _, _, _)
SumLens(dirs, exts, k, fsys) ==
    IF k > Len(dirs) * Len(exts) THEN 0
    ELSE Len(getFilesForExt(GlobPattern(dirs[((k - 1) \div Len(exts)) + 1],
                                        exts[((k - 1) % Len(exts)) + 1]), fsys))
         + SumLens(dirs, exts, k + 1, fsys)

Discovered(a, e, fsys) ==
    LET r == processCli(a, e) IN
    IF r.outcome = "processed" THEN SumLens(r.srcDirs, r.rawFileExts, 1, fsys) ELSE 0

\* Every flag combination, on a host with one file to extract.
CliRuns ==
    { [a |-> a, e |-> e, f |-> OneFile] :
        a \in [raws : RawsInputs, srcs : SrcsInputs, dest : DestInputs,
               num : {DefaultNumRoutines}, quality : {DefaultQuality},
               rotate : BOOLEAN, flagsOk : BOOLEAN],
        e \in [path : {{"echo"}, {"echo", ImageMagicConvertBin}},
               profileOk : BOOLEAN] }

\* The valid flag values the scheduler is explored with, and the budgets and
\* rotate settings each is run with: one pass; two directories with two
\* extensions; one directory listed twice.
SchedFlags ==
    { [raws |-> <<" ", "n", "e", "f", " ">>, srcs |-> <<"a">>,
       budgets |-> (-1)..MaxRoutines, rotates |-> BOOLEAN],
      [raws |-> <<"N", "E", "F", ",", " ", "c", "r", "2">>,
       srcs |-> <<"a", "/", " ", ",", "b">>,
       budgets |-> 1..MaxRoutines, rotates |-> {FALSE}],
      [raws |-> <<" ", "n", "e", "f", " ">>, srcs |-> <<"a", ",", "a", "/">>,
       budgets |-> (-1)..MaxRoutines, rotates |-> BOOLEAN] }

\* the host of the scheduler runs
SchedHost == [path |-> {"echo", ImageMagicConvertBin}, profileOk |-> TRUE]

\* the flag values of the scheduler run c with budget n and rotate setting rt
SchedArgs(c, n, rt) ==
    [raws |-> c.raws, srcs |-> c.srcs, dest |-> <<"d">>, num |-> n,
     quality |-> DefaultQuality, rotate |-> rt, flagsOk |-> TRUE]

\* The file systems that hold files only where a run with the directories
\* dirs and the extensions exts looks, and give it at most max files, a file
\* counted once for each pass finding it.
SchedFileSystems(dirs, exts, max) ==
    { f \in FileSystems :
        /\ SumLens(dirs, exts, 1, f) <= max
        /\ \A cell \in DOMAIN f :
              f[cell] > 0 =>
                  SumLens(dirs, exts, 1, [f EXCEPT ![cell] = 0]) < SumLens(dirs, exts, 1, f) }

\* Valid flags, the budgets of the scenario, every file system that holds
\* files only where the run looks and gives it at most MaxFiles files
\* (MaxRotFiles with --rotate).
SchedRuns ==
    UNION { LET r == processCli(SchedArgs(c, DefaultNumRoutines, FALSE), SchedHost) IN
            UNION { { [a |-> SchedArgs(c, n, rt), e |-> SchedHost, f |-> f] :
                        n \in c.budgets,
                        f \in SchedFileSystems(r.srcDirs, r.rawFileExts,
                                               IF rt THEN MaxRotFiles ELSE MaxFiles) } :
                    rt \in c.rotates } :
            c \in SchedFlags }

\* no utility function is called directly
NoProbe == [fn |-> "none", dirStr |-> <<>>, bin |-> "", done |-> FALSE, ret |-> <<>>]

Init ==
    /\ \E r \in CliRuns \cup SchedRuns :
          /\ osArgs = r.a
          /\ env = r.e
          /\ fs = r.f
    /\ procState = "running"
    /\ pc = "main"
    /\ rawFileExts = <<>>
    /\ srcDirs = <<>>
    /\ destDir = <<>>
    /\ numOfRoutines = 0
    /\ quality = 0
    /\ rotate = FALSE
    /\ dirIdx = 1
    /\ extIdx = 1
    /\ files = <<>>
    /\ j = 0
    /\ routinesActive = 0
    /\ total = 0
    /\ doneClosed = FALSE
    /\ tasks = <<>>
    /\ wgCount = 0
    /\ finishClosed = FALSE
    /\ probe = NoProbe

(***************************************************************************)
(* main and setup.                                                         *)
(***************************************************************************)
\* main up to the return of setup(): os.Create of the profile file, then
\* processCli, then GOMAXPROCS and initParsers, or exitWithErr.
Setup ==
    /\ Running
    /\ pc = "main"
    /\ LET r == processCli(osArgs, env) IN
       IF ~env.profileOk
       THEN /\ procState' = "exit1"
            /\ UNCHANGED <<pc, configVars>>
       ELSE /\ rawFileExts' = r.rawFileExts
            /\ srcDirs' = r.srcDirs
            /\ destDir' = r.destDir
            /\ numOfRoutines' = r.numOfRoutines
            /\ quality' = r.quality
            /\ rotate' = r.rotate
            /\ IF r.outcome = "processed"
               THEN pc' = "doProcess" /\ procState' = procState
               ELSE pc' = pc /\ procState' = "exit1"
    /\ UNCHANGED <<inputVars, probe, wgVars, dirIdx, extIdx, files, j, routinesActive, total,
                   doneClosed, tasks>>

(***************************************************************************)
(* doProcess, the main goroutine.                                          *)
(***************************************************************************)
\* total := 0; done := make(chan bool)
DoProcessBegin ==
    /\ Running
    /\ pc = "doProcess"
    /\ pc' = "passBegin"
    /\ total' = 0
    /\ doneClosed' = FALSE
    /\ dirIdx' = 1
    /\ extIdx' = 1
    /\ UNCHANGED <<inputVars, probe, wgVars, procState, configVars, files, j, routinesActive, tasks>>

\* the next (dir, rawType) of the two range loops
NextDirIdx == IF extIdx < Len(rawFileExts) THEN dirIdx ELSE dirIdx + 1
NextExtIdx == IF extIdx < Len(rawFileExts) THEN extIdx + 1 ELSE 1

\* as PassBegin, but routinesActive is not set to 0 for the new pass
PassBegin_NoReset ==
    /\ Running
    /\ pc = "passBegin"
    /\ dirIdx <= Len(srcDirs)
    /\ LET found == getFilesForExt(GlobPattern(srcDirs[dirIdx], rawFileExts[extIdx]), fs) IN
       /\ files' = found
       /\ IF Len(found) > 0
          THEN /\ pc' = "loop"
               /\ j' = 0
               /\ UNCHANGED <<dirIdx, extIdx, routinesActive>>
          ELSE /\ dirIdx' = NextDirIdx
               /\ extIdx' = NextExtIdx
               /\ UNCHANGED <<pc, routinesActive, j>>
    /\ UNCHANGED <<inputVars, probe, wgVars, procState, configVars, total, doneClosed, tasks>>

\* One (dir, rawType) iteration up to the j loop: the glob, and for a pass
\* with files routinesActive := 0, j := 0.
PassBegin ==
    /\ Running
    /\ pc = "passBegin"
    /\ dirIdx <= Len(srcDirs)
    /\ LET found == getFilesForExt(GlobPattern(srcDirs[dirIdx], rawFileExts[extIdx]), fs) IN
       /\ files' = found
       /\ IF Len(found) > 0
          THEN /\ pc' = "loop"
               /\ routinesActive' = 0
               /\ j' = 0
               /\ UNCHANGED <<dirIdx, extIdx>>
          ELSE /\ dirIdx' = NextDirIdx
               /\ extIdx' = NextExtIdx
               /\ UNCHANGED <<pc, routinesActive, j>>
    /\ UNCHANGED <<inputVars, probe, wgVars, procState, configVars, total, doneClosed, tasks>>

\* as Receive, but the signals are taken in the order of admission
Receive_EarliestFirst(t) ==
    /\ Running
    /\ pc = "loop"
    /\ j < Len(files)
    /\ routinesActive = numOfRoutines
    /\ ~doneClosed
    /\ tasks[t].st = "send"
    /\ \A u \in 1..(t - 1) : tasks[u].st = "sent"
    /\ tasks' = [tasks EXCEPT ![t].st = "sent"]
    /\ routinesActive' = routinesActive - 1
    /\ pc' = "spawn"
    /\ UNCHANGED <<inputVars, probe, wgVars, procState, configVars, dirIdx, extIdx, files, j,
                   total, doneClosed>>

\* as Receive, but without routinesActive--
Receive_NoDecrement(t) ==
    /\ Running
    /\ pc = "loop"
    /\ j < Len(files)
    /\ routinesActive = numOfRoutines
    /\ ~doneClosed
    /\ tasks[t].st = "send"
    /\ tasks' = [tasks EXCEPT ![t].st = "sent"]
    /\ pc' = "spawn"
    /\ UNCHANGED <<inputVars, probe, wgVars, procState, configVars, dirIdx, extIdx, files, j,
                   routinesActive, total, doneClosed>>

\* if routinesActive == numOfRoutines { <-done; routinesActive-- }
\* (drainCnt is 1: the drain loop receives once).  The receive completes
\* together with the send of one goroutine blocked in c <- true.
Receive(t) ==
    /\ Running
    /\ pc = "loop"
    /\ j < Len(files)
    /\ routinesActive = numOfRoutines
    /\ ~doneClosed
    /\ tasks[t].st = "send"
    /\ tasks' = [tasks EXCEPT ![t].st = "sent"]
    /\ routinesActive' = routinesActive - 1
    /\ pc' = "spawn"
    /\ UNCHANGED <<inputVars, probe, wgVars, procState, configVars, dirIdx, extIdx, files, j,
                   total, doneClosed>>

\* the goroutine processFilesConcurrent starts for files[j]
NewTask(file, d, x) ==
    [file |-> file, pass |-> <<d, x>>, st |-> "decode", outcome |-> "none",
     rot |-> "none"]

\* as Admit, but without routinesActive++
Admit_NoIncrement ==
    /\ Running
    /\ \/ pc = "spawn"
       \/ pc = "loop" /\ j < Len(files) /\ routinesActive # numOfRoutines
    /\ tasks' = Append(tasks, NewTask(files[j + 1], dirIdx, extIdx))
    /\ j' = j + 1
    /\ pc' = "loop"
    /\ UNCHANGED <<inputVars, probe, wgVars, procState, configVars, dirIdx, extIdx, files,
                   routinesActive, total, doneClosed>>

\* as Admit, but a goroutine is started only below the budget
Admit_BelowBudget ==
    /\ Running
    /\ \/ pc = "spawn"
       \/ pc = "loop" /\ j < Len(files) /\ routinesActive < numOfRoutines
    /\ tasks' = Append(tasks, NewTask(files[j + 1], dirIdx, extIdx))
    /\ routinesActive' = routinesActive + 1
    /\ j' = j + 1
    /\ pc' = "loop"
    /\ UNCHANGED <<inputVars, probe, wgVars, procState, configVars, dirIdx, extIdx, files,
                   total, doneClosed>>

\* as Admit, but the capacity test is skipped when the budget is 0
Admit_ZeroMeansUnlimited ==
    /\ Running
    /\ \/ pc = "spawn"
       \/ /\ pc = "loop"
          /\ j < Len(files)
          /\ (routinesActive # numOfRoutines \/ numOfRoutines = 0)
    /\ tasks' = Append(tasks, NewTask(files[j + 1], dirIdx, extIdx))
    /\ routinesActive' = routinesActive + 1
    /\ j' = j + 1
    /\ pc' = "loop"
    /\ UNCHANGED <<inputVars, probe, wgVars, procState, configVars, dirIdx, extIdx, files,
                   total, doneClosed>>

\* as Admit, but the files of a pass are taken from the last to the first
Admit_LastFirst ==
    /\ Running
    /\ \/ pc = "spawn"
       \/ pc = "loop" /\ j < Len(files) /\ routinesActive # numOfRoutines
    /\ tasks' = Append(tasks, NewTask(files[Len(files) - j], dirIdx, extIdx))
    /\ routinesActive' = routinesActive + 1
    /\ j' = j + 1
    /\ pc' = "loop"
    /\ UNCHANGED <<inputVars, probe, wgVars, procState, configVars, dirIdx, extIdx, files, total,
                   doneClosed>>

\* as Admit, but without the capacity test before the goroutine is started
Admit_NoCapacityCheck ==
    /\ Running
    /\ \/ pc = "spawn"
       \/ pc = "loop" /\ j < Len(files)
    /\ tasks' = Append(tasks, NewTask(files[j + 1], dirIdx, extIdx))
    /\ routinesActive' = routinesActive + 1
    /\ j' = j + 1
    /\ pc' = "loop"
    /\ UNCHANGED <<inputVars, probe, wgVars, procState, configVars, dirIdx, extIdx, files, total,
                   doneClosed>>

\* processFilesConcurrent(files[j], ...); routinesActive++; j++
Admit ==
    /\ Running
    /\ \/ pc = "spawn"
       \/ pc = "loop" /\ j < Len(files) /\ routinesActive # numOfRoutines
    /\ tasks' = Append(tasks, NewTask(files[j + 1], dirIdx, extIdx))
    /\ routinesActive' = routinesActive + 1
    /\ j' = j + 1
    /\ pc' = "loop"
    /\ UNCHANGED <<inputVars, probe, wgVars, procState, configVars, dirIdx, extIdx, files, total,
                   doneClosed>>

TotalAfterPass_Assign(tot, fileCnt) == fileCnt

\* total += fileCnt
TotalAfterPass(tot, fileCnt) == tot + fileCnt

\* the j loop is over: total += fileCnt, on to the next (dir, rawType)
PassEnd ==
    /\ Running
    /\ pc = "loop"
    /\ j >= Len(files)
    /\ total' = TotalAfterPass(total, Len(files))
    /\ dirIdx' = NextDirIdx
    /\ extIdx' = NextExtIdx
    /\ pc' = "passBegin"
    /\ UNCHANGED <<inputVars, probe, wgVars, procState, configVars, files, j, routinesActive,
                   doneClosed, tasks>>

\* both range loops are over: close(done)
CloseDone ==
    /\ Running
    /\ pc = "passBegin"
    /\ dirIdx > Len(srcDirs)
    /\ doneClosed' = TRUE
    /\ pc' = "return"
    /\ UNCHANGED <<inputVars, probe, wgVars, procState, configVars, dirIdx, extIdx, files, j,
                   routinesActive, total, tasks>>

\* return total
ReturnTotal ==
    /\ Running
    /\ pc = "return"
    /\ pc' = "returned"
    /\ UNCHANGED <<inputVars, probe, wgVars, procState, configVars, dirIdx, extIdx, files, j,
                   routinesActive, total, doneClosed, tasks>>

\* main logs the count and returns: the process ends, whatever still runs
MainExit ==
    /\ Running
    /\ pc = "returned"
    /\ procState' = "exit0"
    /\ UNCHANGED <<inputVars, probe, wgVars, configVars, schedVars, tasks>>

(***************************************************************************)
(* processFilesConcurrent: the decode goroutine and the rotation goroutine *)
(***************************************************************************)
DecodeOutcomes == {"fail", "ok0", "okR"}

\* as SpawnsRotation, but without the test of the rotate flag
SpawnsRotation_IgnoresFlag(rot, outcome) == outcome = "okR"

\* err == nil && rotate && rawfile.JpegOrientation != 0.0
SpawnsRotation(rot, outcome) == rot /\ outcome = "okR"

\* as DecodeReturns, but a goroutine whose decode failed returns after logging
DecodeReturns_ReturnOnError(t) ==
    /\ Running
    /\ tasks[t].st = "decode"
    /\ \E o \in DecodeOutcomes :
          tasks' = [tasks EXCEPT ![t].st = IF o = "fail" THEN "dead" ELSE "send",
                                 ![t].outcome = o,
                                 ![t].rot = IF SpawnsRotation(rotate, o)
                                            THEN "start" ELSE "none"]
    /\ UNCHANGED <<inputVars, probe, wgVars, procState, configVars, schedVars>>

\* as DecodeReturns, but the goroutine itself counts down routinesActive
DecodeReturns_WritesCounter(t) ==
    /\ Running
    /\ tasks[t].st = "decode"
    /\ \E o \in DecodeOutcomes :
          tasks' = [tasks EXCEPT ![t].st = "send",
                                 ![t].outcome = o,
                                 ![t].rot = IF SpawnsRotation(rotate, o)
                                            THEN "start" ELSE "none"]
    /\ routinesActive' = routinesActive - 1
    /\ UNCHANGED <<inputVars, probe, wgVars, procState, configVars, pc, dirIdx, extIdx,
                   files, j, total, doneClosed>>

\* as DecodeReturns, but the goroutine joins the rotation goroutine it
\* started before it goes on to its send
DecodeReturns_JoinsRotation(t) ==
    /\ Running
    /\ tasks[t].st = "decode"
    /\ \E o \in DecodeOutcomes :
          tasks' = [tasks EXCEPT ![t].st = IF SpawnsRotation(rotate, o)
                                           THEN "join" ELSE "send",
                                 ![t].outcome = o,
                                 ![t].rot = IF SpawnsRotation(rotate, o)
                                            THEN "start" ELSE "none"]
    /\ UNCHANGED <<inputVars, probe, wgVars, procState, configVars, schedVars>>

\* ProcessFile returns: the error is logged or the rotation goroutine is
\* started, and the goroutine stands at c <- true.
DecodeReturns(t) ==
    /\ Running
    /\ tasks[t].st = "decode"
    /\ \E o \in DecodeOutcomes :
          tasks' = [tasks EXCEPT ![t].st = "send",
                                 ![t].outcome = o,
                                 ![t].rot = IF SpawnsRotation(rotate, o)
                                            THEN "start" ELSE "none"]
    /\ UNCHANGED <<inputVars, probe, wgVars, procState, configVars, schedVars>>

\* c <- true on the closed channel: the goroutine panics, the process dies
SendOnClosed(t) ==
    /\ Running
    /\ tasks[t].st = "send"
    /\ doneClosed
    /\ procState' = "panic"
    /\ UNCHANGED <<inputVars, probe, wgVars, configVars, schedVars, tasks>>

\* cmd.Start() succeeds
RotStartOk(t) ==
    /\ Running
    /\ tasks[t].rot = "start"
    /\ tasks' = [tasks EXCEPT ![t].rot = "wait"]
    /\ UNCHANGED <<inputVars, probe, wgVars, procState, configVars, schedVars>>

\* cmd.Start() fails: log.Fatal(err)
RotStartFails(t) ==
    /\ Running
    /\ tasks[t].rot = "start"
    /\ tasks' = [tasks EXCEPT ![t].rot = "startFailed"]
    /\ procState' = "exit1"
    /\ UNCHANGED <<inputVars, probe, wgVars, configVars, schedVars>>

\* cmd.Wait() returns, with or without an error (which is logged)
RotWait(t) ==
    /\ Running
    /\ tasks[t].rot = "wait"
    /\ \E r \in {"done", "doneErr"} : tasks' = [tasks EXCEPT ![t].rot = r]
    /\ UNCHANGED <<inputVars, probe, wgVars, procState, configVars, schedVars>>

\* the steps of doProcess and the end of main
SchedStep ==
    \/ DoProcessBegin
    \/ PassBegin
    \/ \E t \in 1..Len(tasks) : Receive(t)
    \/ Admit
    \/ PassEnd
    \/ CloseDone
    \/ ReturnTotal
    \/ MainExit

TaskStep(t) ==
    \/ DecodeReturns(t)
    \/ SendOnClosed(t)

RotStep(t) ==
    \/ RotStartOk(t)
    \/ RotStartFails(t)
    \/ RotWait(t)

Next ==
    \/ Setup
    \/ SchedStep
    \/ \E t \in 1..Len(tasks) : TaskStep(t)
    \/ \E t \in 1..Len(tasks) : RotStep(t)

Spec == Init /\ [][Next]_vars

(***************************************************************************)
(* Fairness: the Go scheduler runs every goroutine that can take a step,   *)
(* and every Decoder call returns.  Nothing is assumed of the external     *)
(* convert process: cmd.Wait may never return.                             *)
(***************************************************************************)
\* The most goroutines a run starts: MaxFiles in the scheduler runs, and in
\* the command-line runs the one file of OneFile found by each of the four
\* passes of --raws "NEF,NEF" --src-dirs "a,a/".
MaxTasks == IF MaxFiles >= 4 THEN MaxFiles ELSE 4

FairSpec ==
    /\ Spec
    /\ WF_vars(SchedStep)
    /\ \A t \in 1..MaxTasks : WF_vars(t \in 1..Len(tasks) /\ TaskStep(t))
    /\ \A t \in 1..MaxTasks :
          WF_vars(t \in 1..Len(tasks) /\ (RotStartOk(t) \/ RotStartFails(t)))

\* As FairSpec, with nothing assumed of the rotation goroutines at all, and
\* of the decode goroutines only that their Decoder call returns.
FairSpecNoRotation ==
    /\ Spec
    /\ WF_vars(SchedStep)
    /\ \A t \in 1..MaxTasks : WF_vars(t \in 1..Len(tasks) /\ DecodeReturns(t))

(***************************************************************************)
(* The WaitGroup-based program: setup, doProcess with the WaitGroup done   *)
(* and the channel finish, and its goroutines.  processCli and the         *)
(* rotation goroutine are those of the channel-based program.              *)
(***************************************************************************)
\* setup(): processCli, then GOMAXPROCS and initParsers, or exitWithErr
WgSetup ==
    /\ Running
    /\ pc = "main"
    /\ LET r == processCli(osArgs, env) IN
       /\ rawFileExts' = r.rawFileExts
       /\ srcDirs' = r.srcDirs
       /\ destDir' = r.destDir
       /\ numOfRoutines' = r.numOfRoutines
       /\ quality' = r.quality
       /\ rotate' = r.rotate
       /\ IF r.outcome = "processed"
          THEN pc' = "doProcess" /\ procState' = procState
          ELSE pc' = pc /\ procState' = "exit1"
    /\ UNCHANGED <<inputVars, probe, wgVars, dirIdx, extIdx, files, j, routinesActive,
                   total, doneClosed, tasks>>

\* var done sync.WaitGroup; total := 0; finish := make(chan struct{})
WgDoProcessBegin ==
    /\ Running
    /\ pc = "doProcess"
    /\ pc' = "passBegin"
    /\ total' = 0
    /\ wgCount' = 0
    /\ finishClosed' = FALSE
    /\ dirIdx' = 1
    /\ extIdx' = 1
    /\ UNCHANGED <<inputVars, probe, procState, configVars, files, j, routinesActive,
                   doneClosed, tasks>>

\* one (dir, rawType) iteration up to the loop over its files: the glob
WgPassBegin ==
    /\ Running
    /\ pc = "passBegin"
    /\ dirIdx <= Len(srcDirs)
    /\ LET found == getFilesForExt(GlobPattern(srcDirs[dirIdx], rawFileExts[extIdx]), fs) IN
       /\ files' = found
       /\ IF Len(found) > 0
          THEN /\ pc' = "loop"
               /\ j' = 0
               /\ UNCHANGED <<dirIdx, extIdx>>
          ELSE /\ dirIdx' = NextDirIdx
               /\ extIdx' = NextExtIdx
               /\ UNCHANGED <<pc, j>>
    /\ UNCHANGED <<inputVars, probe, wgVars, procState, configVars, routinesActive, total,
                   doneClosed, tasks>>

\* done.Add(1); go func(c, file) {...}(finish, file), for the next file
WgSpawn ==
    /\ Running
    /\ pc = "loop"
    /\ j < Len(files)
    /\ wgCount' = wgCount + 1
    /\ tasks' = Append(tasks, NewTask(files[j + 1], dirIdx, extIdx))
    /\ j' = j + 1
    /\ UNCHANGED <<inputVars, probe, finishClosed, procState, configVars, pc, dirIdx,
                   extIdx, files, routinesActive, total, doneClosed>>

\* the loop over the files is over: total += fileCnt
WgPassEnd ==
    /\ Running
    /\ pc = "loop"
    /\ j >= Len(files)
    /\ total' = TotalAfterPass(total, Len(files))
    /\ dirIdx' = NextDirIdx
    /\ extIdx' = NextExtIdx
    /\ pc' = "passBegin"
    /\ UNCHANGED <<inputVars, probe, wgVars, procState, configVars, files, j,
                   routinesActive, doneClosed, tasks>>

\* both range loops are over: close(finish)
CloseFinish ==
    /\ Running
    /\ pc = "passBegin"
    /\ dirIdx > Len(srcDirs)
    /\ finishClosed' = TRUE
    /\ pc' = "wait"
    /\ UNCHANGED <<inputVars, probe, wgCount, procState, configVars, dirIdx, extIdx, files,
                   j, routinesActive, total, doneClosed, tasks>>

\* done.Wait() returns; return total
WgWaitReturns ==
    /\ Running
    /\ pc = "wait"
    /\ wgCount = 0
    /\ pc' = "returned"
    /\ UNCHANGED <<inputVars, probe, wgVars, procState, configVars, dirIdx, extIdx, files,
                   j, routinesActive, total, doneClosed, tasks>>

\* parser.ProcessFile returns: the error is logged or the rotation goroutine
\* is started, and the goroutine stands at select { case <-c: }
WgDecodeReturns(t) ==
    /\ Running
    /\ tasks[t].st = "decode"
    /\ \E o \in DecodeOutcomes :
          tasks' = [tasks EXCEPT ![t].st = "select",
                                 ![t].outcome = o,
                                 ![t].rot = IF SpawnsRotation(rotate, o)
                                            THEN "start" ELSE "none"]
    /\ UNCHANGED <<inputVars, probe, wgVars, procState, configVars, schedVars>>

\* the receive from the closed channel finish returns; done.Done()
WgDone(t) ==
    /\ Running
    /\ tasks[t].st = "select"
    /\ finishClosed
    /\ tasks' = [tasks EXCEPT ![t].st = "done"]
    /\ wgCount' = wgCount - 1
    /\ UNCHANGED <<inputVars, probe, finishClosed, procState, configVars, schedVars>>

WgSchedStep ==
    \/ WgDoProcessBegin
    \/ WgPassBegin
    \/ WgSpawn
    \/ WgPassEnd
    \/ CloseFinish
    \/ WgWaitReturns
    \/ MainExit

WgTaskStep(t) ==
    \/ WgDecodeReturns(t)
    \/ WgDone(t)

NextWg ==
    \/ WgSetup
    \/ WgSchedStep
    \/ \E t \in 1..Len(tasks) : WgTaskStep(t)
    \/ \E t \in 1..Len(tasks) : RotStep(t)

SpecWg == Init /\ [][NextWg]_vars

\* The Go scheduler runs doProcess and every decode goroutine that can take
\* a step, and every Decoder call returns; nothing is assumed of the
\* rotation goroutines.
FairSpecWg ==
    /\ SpecWg
    /\ WF_vars(WgSchedStep)
    /\ \A t \in 1..MaxTasks : WF_vars(t \in 1..Len(tasks) /\ WgTaskStep(t))

(***************************************************************************)
(* The utility functions called directly, as the tests call them: one call *)
(* of validateUserDir or of isImagicConvertInPath on a host.               *)
(***************************************************************************)
PathChars == {"a", "d", "f", "x", "/"}

\* the paths of at most MaxPathLen characters
Paths == UNION { [1..k -> PathChars] : k \in 0..MaxPathLen }

\* "echo" can be started on every host, "blah" on none
Bins == {"echo", "blah", ImageMagicConvertBin}

Hosts == [path : {{"echo"}, {"echo", ImageMagicConvertBin}}, profileOk : {TRUE}]

ProbeCalls ==
    { [NoProbe EXCEPT !.fn = "validateUserDir", !.dirStr = p] : p \in Paths }
    \cup { [NoProbe EXCEPT !.fn = "isImagicConvertInPath", !.bin = b] : b \in Bins }

InitHelpers ==
    /\ probe \in ProbeCalls
    /\ env \in Hosts
    /\ osArgs = [raws |-> <<"n", "e", "f">>, srcs |-> <<"a">>, dest |-> <<"d">>,
                 num |-> DefaultNumRoutines, quality |-> DefaultQuality,
                 rotate |-> FALSE, flagsOk |-> TRUE]
    /\ fs = OneFile
    /\ procState = "running"
    /\ pc = "main"
    /\ rawFileExts = <<>>
    /\ srcDirs = <<>>
    /\ destDir = <<>>
    /\ numOfRoutines = 0
    /\ quality = 0
    /\ rotate = FALSE
    /\ dirIdx = 1
    /\ extIdx = 1
    /\ files = <<>>
    /\ j = 0
    /\ routinesActive = 0
    /\ total = 0
    /\ doneClosed = FALSE
    /\ tasks = <<>>
    /\ wgCount = 0
    /\ finishClosed = FALSE

\* isValid, errStr := validateUserDir(dirName)
CallValidateUserDir ==
    /\ probe.fn = "validateUserDir"
    /\ ~probe.done
    /\ probe' = [probe EXCEPT !.done = TRUE, !.ret = validateUserDir(probe.dirStr)]
    /\ UNCHANGED <<inputVars, wgVars, procState, configVars, schedVars, tasks>>

\* exists := isImagicConvertInPath(bin)
CallIsImagicConvertInPath ==
    /\ probe.fn = "isImagicConvertInPath"
    /\ ~probe.done
    /\ probe' = [probe EXCEPT !.done = TRUE,
                              !.ret = <<isImagicConvertInPath(probe.bin, env)>>]
    /\ UNCHANGED <<inputVars, wgVars, procState, configVars, schedVars, tasks>>

NextHelpers ==
    \/ CallValidateUserDir
    \/ CallIsImagicConvertInPath

SpecHelpers == InitHelpers /\ [][NextHelpers]_vars

(***************************************************************************)
(* Quantities the properties speak of.                                     *)
(***************************************************************************)
TaskIds == 1..Len(tasks)

\* goroutines started by processFilesConcurrent that have not reached c <- true
ActiveDecodeTasks == Cardinality({t \in TaskIds : tasks[t].st = "decode"})

\* admitted tasks whose completion signal has not been received
Outstanding == Cardinality({t \in TaskIds : tasks[t].st # "sent"})

\* the j loop of the current pass has made its last admission
AtPassEnd == pc = "loop" /\ j >= Len(files)

\* C1: with a budget N >= 1, at most N decode tasks are active in every
\* reachable state, over all passes.
C1_ActiveWithinBudget ==
    numOfRoutines >= 1 => ActiveDecodeTasks <= numOfRoutines

\* C2: the total doProcess returns is the number of files discovered over
\* all (directory, extension) passes, whatever the decodes did.
C2_TotalIsDiscovered ==
    pc = "returned" => total = Discovered(osArgs, env, fs)

C2_Witness ==
    /\ pc = "returned"
    /\ total >= 2
    /\ \E t, u \in TaskIds : tasks[t].pass # tasks[u].pass
    /\ \E t \in TaskIds : tasks[t].outcome = "fail"
    /\ \E t \in TaskIds : tasks[t].outcome = "ok0"

\* C3: with a budget N >= 1 and every Decoder call returning, doProcess
\* eventually closes the channel and returns the total.
C3_EventuallyReturns ==
    [](pc = "doProcess" /\ numOfRoutines >= 1 => <>(pc = "returned"))

\* C4: every admitted task whose Decoder call returned delivers its
\* completion signal: when main has ended the run normally no goroutine is
\* left that stands at c <- true with its signal undelivered.
C4_EverySignalDelivered ==
    procState = "exit0" => \A t \in TaskIds : tasks[t].st # "send"

\* C5: a failed decode does not abort the batch.  The step in which a decode
\* fails takes its goroutine to the send of the completion signal and changes
\* nothing of the process, the scheduler or the other tasks; and when
\* doProcess has returned, every discovered file has been admitted and is
\* counted in the total, failed ones included.
C5_FailureDoesNotAbort ==
    /\ [](pc = "returned" =>
            /\ Len(tasks) = Discovered(osArgs, env, fs)
            /\ total = Len(tasks))
    /\ [][\A t \in TaskIds :
            (tasks[t].st = "decode" /\ tasks'[t].outcome = "fail") =>
                /\ tasks'[t].st = "send"
                /\ procState' = procState
                /\ UNCHANGED schedVars
                /\ \A u \in TaskIds \ {t} : tasks'[u] = tasks[u]]_vars

C5_Witness ==
    /\ pc = "returned"
    /\ total = 3
    /\ \E t \in TaskIds : tasks[t].outcome = "fail" /\ tasks[t].st = "sent"
    /\ Cardinality({t \in TaskIds : tasks[t].outcome \in {"ok0", "okR"}}) = 2

\* The checks of the command line, stated on the flag values: cli ran the
\* action, the three required flags are not blank, convert can be started if
\* --rotate is set, every listed extension is NEF or CR2 once trimmed and
\* upper-cased, every source directory (as normalised) and the destination
\* directory is an existing directory.
ChecksPass(a, e) ==
    LET exts == Split(TrimSpace(a.raws), ",")
        dirs == Split(TrimSpace(a.srcs), ",")
    IN  /\ a.flagsOk
        /\ TrimSpace(a.raws) # <<>>
        /\ TrimSpace(a.srcs) # <<>>
        /\ TrimSpace(a.dest) # <<>>
        /\ a.rotate => ImageMagicConvertBin \in e.path
        /\ \A i \in 1..Len(exts) : NormRawExt(exts[i]) \in {NefParserKey, Cr2ParserKey}
        /\ \A i \in 1..Len(dirs) : PathKind(NormSrcDir(dirs[i])) = "dir"
        /\ PathKind(TrimSpace(a.dest)) = "dir"

\* C6: when a check of the command line fails the process exits with code 1
\* and no task is ever admitted; doProcess is entered only when all passed.
C6_ValidationGate ==
    /\ [](~ChecksPass(osArgs, env) =>
            /\ pc = "main"
            /\ tasks = <<>>
            /\ procState \in {"running", "exit1"})
    /\ [][(pc = "main" /\ procState = "running" /\ ~ChecksPass(osArgs, env)) =>
            procState' = "exit1"]_vars

C6_Witness ==
    /\ procState = "exit1"
    /\ pc = "main"
    /\ env.profileOk
    /\ osArgs.flagsOk
    /\ osArgs.rotate /\ ImageMagicConvertBin \notin env.path
    /\ ChecksPass([osArgs EXCEPT !.rotate = FALSE], env)

\* C7: a rotation unit that fails (the launch of convert fails, or convert
\* exits nonzero) is only logged: the step leaves the process running and
\* the scheduler and the other tasks as they were.
C7_RotationFailureOnlyLogged ==
    [][\A t \in TaskIds :
        (tasks[t].rot \in {"start", "wait"} /\ tasks'[t].rot \in {"startFailed", "doneErr"}) =>
            /\ procState' = procState
            /\ UNCHANGED schedVars
            /\ \A u \in TaskIds \ {t} : tasks'[u] = tasks[u]]_vars

\* C8: at the end of each pass, and once close(done) has executed, no
\* admitted task has its completion signal outstanding.
C8_DrainedBeforeFinalize ==
    (AtPassEnd \/ doneClosed) => Outstanding = 0

\* C9: once doProcess has closed the channel no decode goroutine stands at
\* its send, and none has panicked sending on the closed channel.
C9_NoSendAfterClose ==
    doneClosed =>
        /\ procState # "panic"
        /\ \A t \in TaskIds : tasks[t].st # "send"

\* C10: over a whole run no file path is admitted twice.
C10_AdmittedAtMostOnce ==
    \A t, u \in TaskIds : t # u => tasks[t].file # tasks[u].file

\* the run makes a single (directory, extension) pass
SinglePass == Len(srcDirs) = 1 /\ Len(rawFileExts) = 1

\* completion signals the scheduler has received so far
Received == Cardinality({t \in TaskIds : tasks[t].st = "sent"})

\* C11: in a run of a single pass of K files with a budget 1 <= N < K, the
\* file at position N + i has been admitted only if at least i completion
\* signals have been received; at most N decode tasks are active at any time
\* and the total returned is K.
C11_AdmissionAfterSignals ==
    LET K == SumLens(srcDirs, rawFileExts, 1, fs)
        N == numOfRoutines
    IN  (SinglePass /\ 1 <= N /\ N < K) =>
            /\ \A i \in 1..(K - N) : Len(tasks) >= N + i => Received >= i
            /\ ActiveDecodeTasks <= N
            /\ pc = "returned" => total = K

\* K = 3, N = 2: two tasks decode while the third file waits for a signal
C11_Witness ==
    /\ SinglePass
    /\ numOfRoutines = 2
    /\ Len(files) = 3
    /\ pc = "loop"
    /\ Len(tasks) = 2
    /\ \A t \in TaskIds : tasks[t].st = "decode"

\* C12: a rotation unit exists for an admitted file exactly when the rotate
\* flag is set, the decode of the file succeeded and the orientation it
\* reported is nonzero; a file has at most the one unit its task record
\* holds, and a failed or unfinished decode has none.
C12_RotationSpawnedIff ==
    \A t \in TaskIds :
        /\ tasks[t].rot # "none" <=> (rotate /\ tasks[t].outcome = "okR")
        /\ tasks[t].outcome \in {"none", "fail", "ok0"} => tasks[t].rot = "none"

C12_Witness ==
    /\ rotate
    /\ \E t \in TaskIds : tasks[t].outcome = "okR" /\ tasks[t].rot # "none"
    /\ \E t \in TaskIds : tasks[t].outcome = "fail" /\ tasks[t].rot = "none"

Min(a, b) == IF a <= b THEN a ELSE b
Max(a, b) == IF a >= b THEN a ELSE b

\* files of pass k, the passes numbered with directories outer, extensions inner
PassFiles(dirs, exts, k, fsys) ==
    getFilesForExt(GlobPattern(dirs[((k - 1) \div Len(exts)) + 1],
                               exts[((k - 1) % Len(exts)) + 1]), fsys)

\* sum over the passes k..last of min(K, n), K the number of files of the pass
RECURSIVE SumMin(_, _, _, _, _, _)
SumMin(dirs, exts, k, last, fsys, n) ==
    IF k > last THEN 0
    ELSE Min(Len(PassFiles(dirs, exts, k, fsys)), n)
         + SumMin(dirs, exts, k + 1, last, fsys, n)

\* sum over the passes k..last of max(0, K - n)
RECURSIVE SumExcess(_, _, _, _, _, _)
SumExcess(dirs, exts, k, last, fsys, n) ==
    IF k > last THEN 0
    ELSE Max(0, Len(PassFiles(dirs, exts, k, fsys)) - n)
         + SumExcess(dirs, exts, k + 1, last, fsys, n)

\* the discovery lists of the passes k.. one after the other
RECURSIVE ConcatFiles(_, _, _, _)
ConcatFiles(dirs, exts, k, fsys) ==
    IF k > Len(dirs) * Len(exts) THEN <<>>
    ELSE PassFiles(dirs, exts, k, fsys) \o ConcatFiles(dirs, exts, k + 1, fsys)

NumPasses == Len(srcDirs) * Len(rawFileExts)

\* number of the pass the two range loops stand at, NumPasses + 1 when over
PassNo == (dirIdx - 1) * Len(rawFileExts) + extIdx

C14_ConvertInPath ==
    (probe.fn = "isImagicConvertInPath" /\ probe.done) =>
        /\ probe.ret[1] <=> probe.bin \in env.path
        /\ probe.bin = "echo" => probe.ret[1]
        /\ probe.bin = "blah" => ~probe.ret[1]

\* the call for a program that cannot be started has returned false
C14_Witness ==
    /\ probe.fn = "isImagicConvertInPath"
    /\ probe.done
    /\ probe.bin = "blah"
    /\ probe.ret = <<FALSE>>

\* C15: in the WaitGroup-based doProcess numOfRoutines (N >= 1) is the
\* maximum number of files processed concurrently: in every reachable state
\* at most numOfRoutines decode goroutines have been started and have not
\* yet returned from the Decoder call.
C15_WgActiveWithinBudget ==
    numOfRoutines >= 1 =>
        Cardinality({t \in TaskIds : tasks[t].st = "decode"}) <= numOfRoutines

\* C16: when doProcess closes done, with N >= 1, at most N - 1 admitted
\* tasks have their signal not yet received, all of them of the final pass.
C16_OutstandingAtClose ==
    (doneClosed /\ numOfRoutines >= 1) =>
        /\ Outstanding <= numOfRoutines - 1
        /\ \A t \in TaskIds :
              tasks[t].st # "sent" => tasks[t].pass = tasks[Len(tasks)].pass

\* C16 as amended: when doProcess closes done, with N >= 1, the admitted
\* tasks whose signal has not been received are min(K, N) for each pass of K
\* files, summed over the passes.
C16_OutstandingAtCloseAmended ==
    (doneClosed /\ numOfRoutines >= 1) =>
        Outstanding = SumMin(srcDirs, rawFileExts, 1, NumPasses, fs, numOfRoutines)

\* N = 1, two passes: two tasks outstanding at the close, one of the first pass
C16_Witness ==
    /\ doneClosed
    /\ numOfRoutines = 1
    /\ Outstanding = 2
    /\ \E t \in TaskIds :
          tasks[t].st # "sent" /\ tasks[t].pass # tasks[Len(tasks)].pass

\* signals received when the scheduler stands where it stands, if each pass
\* of K files receives one signal before each of its admissions after the
\* first N and none elsewhere
ExpectedReceived ==
    SumExcess(srcDirs, rawFileExts, 1, PassNo - 1, fs, numOfRoutines)
    + (IF pc = "loop" THEN Max(0, j - numOfRoutines)
       ELSE IF pc = "spawn" THEN Max(0, j + 1 - numOfRoutines)
       ELSE 0)

\* C17: with N >= 1 the scheduler receives exactly one signal before each
\* admission made at capacity and none otherwise: max(0, K - N) in a pass of
\* K files, none after the last admission of a pass, before the next pass or
\* before the return; a receive happens only in the j loop at capacity with
\* a file left, and is followed by the admission of that file.
C17_ReceivesPerPass ==
    /\ [](numOfRoutines >= 1 => Received = ExpectedReceived)
    /\ [][(numOfRoutines >= 1 /\ Received' # Received) =>
            /\ pc = "loop" /\ j < Len(files) /\ routinesActive = numOfRoutines
            /\ Received' = Received + 1
            /\ pc' = "spawn"]_vars

\* K = 3, N = 1: two receives, doProcess has returned
C17_Witness ==
    /\ pc = "returned"
    /\ SinglePass
    /\ numOfRoutines = 1
    /\ Len(tasks) = 3
    /\ Received = 2

\* C18: rotation is detached: a task that started a rotation unit stands at
\* its send or has had its signal received whatever the unit does, so a
\* received signal and the return of doProcess do not tell that the unit has
\* finished.
C18_RotationDetached ==
    \A t \in TaskIds : tasks[t].rot # "none" => tasks[t].st \in {"send", "sent"}

\* doProcess has returned and a file whose signal was received has its
\* rotation unit unfinished
C18_Witness ==
    /\ pc = "returned"
    /\ \E t \in TaskIds : tasks[t].st = "sent" /\ tasks[t].rot \in {"start", "wait"}

\* C19: a rotation unit that never terminates blocks only itself: with the
\* rotate flag set and N >= 1, assuming only that the scheduler runs and
\* that Decoder calls return, every discovered file is eventually admitted
\* and doProcess eventually returns.
C19_HungRotationBlocksOnlyItself ==
    [](pc = "doProcess" /\ numOfRoutines >= 1 /\ rotate =>
         <>(pc = "returned" /\ Len(tasks) = SumLens(srcDirs, rawFileExts, 1, fs)))

\* C20: tasks are admitted in discovery order: the files admitted so far are
\* the first ones of the discovery lists of the passes put one after the
\* other, directories outer and extensions inner, and all of them once
\* doProcess has returned.
C20_AdmittedInDiscoveryOrder ==
    LET expected == ConcatFiles(srcDirs, rawFileExts, 1, fs) IN
        /\ Len(tasks) <= Len(expected)
        /\ \A t \in TaskIds : tasks[t].file = expected[t]
        /\ pc = "returned" => Len(tasks) = Len(expected)

\* two directories, two extensions: the file of the second extension in the
\* first directory, then the two files of the first extension in the second
C20_Witness ==
    /\ pc = "returned"
    /\ Len(tasks) = 3
    /\ tasks[1].pass = <<1, 2>>
    /\ tasks[2].pass = <<2, 1>>
    /\ tasks[3].pass = <<2, 1>>
    /\ tasks[2].file # tasks[3].file

\* the scheduler stands at <-done: at capacity, with a file left to admit
WaitsAtCapacity ==
    /\ Running
    /\ pc = "loop"
    /\ j < Len(files)
    /\ routinesActive = numOfRoutines
    /\ ~doneClosed

\* C21: the scheduler accepts the completion signal of any outstanding
\* task: whenever it waits at capacity, the receive from each task that
\* stands at its send is enabled, whatever the other tasks do and whatever
\* the order of admission.
C21_SignalFromAnyTask ==
    \A t \in TaskIds :
        (WaitsAtCapacity /\ tasks[t].st = "send") => ENABLED Receive(t)

\* the signal of a later task has been received and made room for the next
\* file while an earlier task is still in its Decoder call
C21_Witness ==
    \E t, u \in TaskIds :
        /\ t < u
        /\ tasks[u].st = "sent"
        /\ tasks[t].st = "decode"
        /\ Len(tasks) > u

\* C22: decode tasks and rotation units never write scheduler state.  A
\* step in which a task or its rotation unit moves by itself (not the
\* receive of its signal) leaves total, routinesActive and the rest of the
\* scheduler state as they were; a step that changes scheduler state either
\* leaves the tasks alone, or admits one task, or receives the signal of one
\* task that stood at its send, the only way a task bears on the
\* scheduler; and the configuration values are unchanged by every step once
\* doProcess has been entered.
C22_TasksDoNotWriteSchedulerState ==
    [][/\ pc # "main" => UNCHANGED configVars
       /\ \A t \in TaskIds :
             (/\ tasks'[t] # tasks[t]
              /\ ~(tasks[t].st = "send" /\ tasks'[t].st = "sent")) =>
                 UNCHANGED schedVars
       /\ (schedVars' # schedVars /\ tasks' # tasks) =>
             \/ Len(tasks') = Len(tasks) + 1 /\ SubSeq(tasks', 1, Len(tasks)) = tasks
             \/ \E t \in TaskIds :
                   /\ tasks[t].st = "send"
                   /\ tasks' = [tasks EXCEPT ![t].st = "sent"]]_vars

\* a decode goroutine and its rotation unit have run to their ends while the
\* scheduler waited at capacity
C22_Witness ==
    /\ WaitsAtCapacity
    /\ total = 0
    /\ routinesActive = Len(tasks)
    /\ \E t \in TaskIds : tasks[t].st = "send" /\ tasks[t].rot = "done"

\* C23: with N >= 1 the counter routinesActive is between 0 and N in every
\* state of doProcess, in every pass, and is min(K, N) when a pass of K
\* files ends.
C23_RoutinesActiveRange ==
    numOfRoutines >= 1 =>
        /\ 0 <= routinesActive
        /\ routinesActive <= numOfRoutines
        /\ AtPassEnd => routinesActive = Min(Len(files), numOfRoutines)

\* the second pass of a run ends, with fewer files than the budget
C23_Witness ==
    /\ AtPassEnd
    /\ PassNo > 1
    /\ Len(tasks) > Len(files)
    /\ numOfRoutines = 2
    /\ Len(files) = 1
    /\ routinesActive = 1

\* C24: with numOfRoutines = 0, a value processCli accepts, no task is ever
\* spawned; and when at least one file is discovered doProcess stops at the
\* receive from done before the first admission, where no step of it is
\* enabled any more, and never closes the channel or returns.
C24_ZeroBudgetBlocks ==
    (numOfRoutines = 0 /\ pc # "main") =>
        /\ tasks = <<>>
        /\ SumLens(srcDirs, rawFileExts, 1, fs) >= 1 =>
              /\ ~doneClosed
              /\ pc \notin {"return", "returned"}
              /\ procState # "exit0"
        /\ pc = "loop" => (j = 0 /\ ~ENABLED SchedStep)

\* doProcess stands at <-done with the first file of a pass not admitted
C24_Witness ==
    /\ numOfRoutines = 0
    /\ WaitsAtCapacity
    /\ Len(files) >= 1
    /\ j = 0
    /\ tasks = <<>>

\* C25: with a negative numOfRoutines, a value processCli accepts, the test
\* routinesActive == numOfRoutines is never true: doProcess never receives
\* a signal, and with a file left in the j loop the admission is enabled at
\* once, so all files of the run can be active at the same time.
C25_NegativeBudgetUnlimited ==
    (numOfRoutines < 0 /\ pc # "main") =>
        /\ routinesActive # numOfRoutines
        /\ pc # "spawn"
        /\ Received = 0
        /\ (Running /\ pc = "loop" /\ j < Len(files)) => ENABLED Admit

\* every file of the run is in its Decoder call at the same time
C25_Witness ==
    /\ numOfRoutines < 0
    /\ Len(tasks) = MaxFiles
    /\ Len(tasks) = SumLens(srcDirs, rawFileExts, 1, fs)
    /\ \A t \in TaskIds : tasks[t].st = "decode"

\* no goroutine has called done.Done before close(finish); the WaitGroup
\* counts the goroutines that have not called it, each calling it once; and
\* doProcess has returned only if all of them have
WgDoneOnlyAfterClose ==
    /\ \A t \in TaskIds : tasks[t].st = "done" => finishClosed
    /\ wgCount = Cardinality({t \in TaskIds : tasks[t].st # "done"})
    /\ pc = "returned" => \A t \in TaskIds : tasks[t].st = "done"

\* C26: in the WaitGroup-based doProcess no decode goroutine calls
\* done.Done before close(finish) has executed, doProcess returns only after
\* every spawned decode goroutine has called done.Done exactly once, and,
\* every Decoder call returning, doProcess eventually returns.
C26_WgReturnsAfterAllDone ==
    /\ []WgDoneOnlyAfterClose
    /\ [](pc = "doProcess" => <>(pc = "returned"))

\* every goroutine a run starts is one the fairness conditions speak of
TasksWithinMaxTasks == Len(tasks) <= MaxTasks

=============================================================================
